---- MODULE Spec2Model ----
(***************************************************************************)
(* Model of the USB serial transport (src/src/serial/mod.rs), the serial   *)
(* logger (src/src/serial/log.rs) and the ANSI escape sequences            *)
(* (src/src/serial/ansi.rs).                                               *)
(*                                                                         *)
(* Text is modelled as a sequence of one-byte strings; "ESC" stands for    *)
(* the byte 0x1B.                                                          *)
(***************************************************************************)
EXTENDS Integers, Sequences, FiniteSets, TLC

(***************************************************************************)
(* Bounds of the model.                                                    *)
(***************************************************************************)
\* The clock horizon: millis() is observed in 0..MaxClock.
MaxClock == 3
\* set_timeout is called with a timeout in 0..MaxTimeout.
MaxTimeout == 2
\* Callers pass buffers of length 0..MaxLen.
MaxLen == 2
\* At most MaxRx bytes wait in the hardware receive buffer.
MaxRx == 2
\* The count of hardware reads of one call saturates at MaxHwReads.
MaxHwReads == 2
\* A filter table holds at most MaxFilters filters.
MaxFilters == 2
\* At most MaxLogCalls calls of log are observed.
MaxLogCalls == 2
\* A write that falls short has room for at most MaxRoom bytes.
MaxRoom == 3

\* The bytes the host sends.
Bytes == {"a", "b"}
\* The content of a caller's buffer before anything is read into it.
Blank == "_"

Min(a, b) == IF a <= b THEN a ELSE b
Max(a, b) == IF a >= b THEN a ELSE b

VARIABLES
    \* ---- the hardware and the clock
    now,              \* millis(): the monotonic millisecond clock
    rx,               \* the USB receive buffer: bytes received and not yet read
    \* ---- USBSerial
    SERIAL_TIMEOUT,   \* static SERIAL_TIMEOUT: AtomicU32
    pc,               \* where the running read call stands; "idle" between calls
    op,               \* the read operation that runs or ran last
    buffer,           \* the caller's buffer (memory from its first byte on)
    length,           \* buffer.len()
    \* (the locals of a call that is not the running or last one are 0)
    count,            \* read_bytes_timeout: the count of read in bytes
    start_millis,     \* read_bytes_timeout: the start time
    avaliable_bytes,  \* read_bytes: min(avaliable(), buffer.len())
    ret,              \* the count the last read call returned (0 while one runs)
    \* ---- history of the running read call
    hwReads,          \* hardware reads issued by the call (saturating)
    hwReq,            \* the last hardware read: [offset, size]
    rxAtCall,         \* the receive buffer as the call found it
    \* ---- the build
    no_color,         \* whether the crate is built with feature "no_color"
    \* ---- the log crate
    logger_set,       \* whether log::set_logger has installed a logger
    max_level,        \* log::max_level(): the process-wide maximum level
    \* ---- static mut LOGGER: USBLogger
    enabled,          \* LOGGER.enabled
    filters,          \* LOGGER.filters
    \* ---- history of the logger
    init_called,      \* whether USBLogger::init has been called
    init_result,      \* what the last call of init returned: "Ok", "Err" or "none"
    query,            \* the last call of enabled since init: [metadata, result]
    log_calls,        \* the number of calls of log so far
    last_record,      \* the record and clock reading of the last call of log
    log_status,       \* how the last call of log ended
    fmt_result,       \* what writeln! returned in the last call of log
    writes,           \* usb_serial_write calls of the last call of log, in order
    wire,             \* for every usb_serial_write call so far, the log call it is of
    \* ---- an EscapeSequence value and its history
    sequence,         \* the EscapeSequence built so far: [fg, bg, styles]
    built,            \* the operation that made it: [op, before], before the value it was given
    rendered          \* what Display wrote for it, if it was displayed: <<>> or <<string>>

serialVars == <<now, rx, SERIAL_TIMEOUT, pc, op, buffer, length, count,
                start_millis, avaliable_bytes, ret, hwReads, hwReq,
                rxAtCall>>

loggerVars == <<no_color, logger_set, max_level, enabled, filters,
                init_called, init_result, query, log_calls, last_record,
                log_status, fmt_result, writes, wire>>

ansiVars == <<sequence, built, rendered>>

vars == <<serialVars, loggerVars, ansiVars>>

(***************************************************************************)
(* The hardware primitives (extern "C").                                   *)
(***************************************************************************)
\* usb_serial_available(): number of bytes available in the receive buffer.
usb_serial_available(q) == Len(q)

\* usb_serial_read(buffer, size): the bytes a read of `size` takes from the
\* front of the receive buffer q: those already buffered, at most `size`.
usb_serial_read(q, size) == SubSeq(q, 1, Min(size, Len(q)))

\* The receive buffer after `n` bytes were taken from its front.
rx_after_read(q, n) == SubSeq(q, n + 1, Len(q))

\* Memory `mem` after `bytes` were stored from byte offset `offset` on. Bytes
\* stored past the end of mem extend it: an overrun of a buffer shows as a
\* buffer longer than the caller made it.
store_at(mem, offset, bytes) ==
    [i \in 1..Max(Len(mem), offset + Len(bytes)) |->
        IF i > offset /\ i <= offset + Len(bytes) THEN bytes[i - offset]
        ELSE IF i <= Len(mem) THEN mem[i]
        ELSE Blank]

\* A caller's fresh buffer of length n.
fresh_buffer(n) == [i \in 1..n |-> Blank]

bump_reads(n) == IF n < MaxHwReads THEN n + 1 ELSE n

(***************************************************************************)
(* The environment: the clock advances, the host sends bytes.              *)
(***************************************************************************)
Tick ==
    /\ now < MaxClock
    /\ now' = now + 1
    /\ UNCHANGED <<rx, SERIAL_TIMEOUT, pc, op, buffer, length, count,
                   start_millis, avaliable_bytes, ret, hwReads, hwReq,
                   rxAtCall>>
    /\ UNCHANGED loggerVars
    /\ UNCHANGED ansiVars

Arrive(b) ==
    /\ Len(rx) < MaxRx
    /\ rx' = Append(rx, b)
    /\ UNCHANGED <<now, SERIAL_TIMEOUT, pc, op, buffer, length, count,
                   start_millis, avaliable_bytes, ret, hwReads, hwReq,
                   rxAtCall>>
    /\ UNCHANGED loggerVars
    /\ UNCHANGED ansiVars

(***************************************************************************)
(* USBSerial::set_timeout                                                  *)
(***************************************************************************)
set_timeout(timeout) ==
    /\ pc = "idle"
    /\ SERIAL_TIMEOUT' = timeout
    /\ UNCHANGED <<now, rx, pc, op, buffer, length, count, start_millis,
                   avaliable_bytes, ret, hwReads, hwReq, rxAtCall>>
    /\ UNCHANGED loggerVars
    /\ UNCHANGED ansiVars

(***************************************************************************)
(* USBSerial::read_bytes_timeout                                           *)
(***************************************************************************)
\* Whether the loop returns at the timeout check.
timeout_return(e, timeout) == e < timeout

\* Mutant of read_request: the read asks for the whole buffer at every offset.
read_request_whole(len, c) == len

\* The size asked of the hardware read at fill offset c of a buffer of len bytes.
read_request(len, c) == len - c

\* let mut count = 0; let length = buffer.len(); let start_millis = millis();
read_bytes_timeout_call(L) ==
    /\ pc = "idle"
    /\ pc' = "rbt_read"
    /\ op' = "read_bytes_timeout"
    /\ buffer' = fresh_buffer(L)
    /\ length' = L
    /\ count' = 0
    /\ start_millis' = now
    /\ hwReads' = 0
    /\ avaliable_bytes' = 0
    /\ hwReq' = [offset |-> 0, size |-> 0]
    /\ rxAtCall' = rx
    /\ ret' = 0
    /\ UNCHANGED <<now, rx, SERIAL_TIMEOUT>>
    /\ UNCHANGED loggerVars
    /\ UNCHANGED ansiVars

\* count += usb_serial_read(buffer + count, length - count);
\* if count >= length { return count; }
read_bytes_timeout_read ==
    /\ pc = "rbt_read"
    /\ LET size  == read_request(length, count)
           bytes == usb_serial_read(rx, size)
           c     == count + Len(bytes)
       IN /\ hwReq' = [offset |-> count, size |-> size]
          /\ hwReads' = bump_reads(hwReads)
          /\ buffer' = store_at(buffer, count, bytes)
          /\ rx' = rx_after_read(rx, Len(bytes))
          /\ count' = c
          /\ IF c >= length
                THEN pc' = "idle" /\ ret' = c
                ELSE pc' = "rbt_time" /\ ret' = ret
    /\ UNCHANGED <<now, SERIAL_TIMEOUT, op, length, start_millis,
                   avaliable_bytes, rxAtCall>>
    /\ UNCHANGED loggerVars
    /\ UNCHANGED ansiVars

\* if millis() - start_millis < SERIAL_TIMEOUT.load() { return count; }
read_bytes_timeout_time ==
    /\ pc = "rbt_time"
    /\ LET e == now - start_millis
       IN IF timeout_return(e, SERIAL_TIMEOUT)
             THEN pc' = "idle" /\ ret' = count
             ELSE pc' = "rbt_read" /\ ret' = ret
    /\ UNCHANGED <<now, rx, SERIAL_TIMEOUT, op, buffer, length, count,
                   start_millis, avaliable_bytes, hwReads, hwReq, rxAtCall>>
    /\ UNCHANGED loggerVars
    /\ UNCHANGED ansiVars

(***************************************************************************)
(* USBSerial::read_bytes                                                   *)
(***************************************************************************)
\* Mutant of read_bytes_request: the read is not capped at the bytes available.
read_bytes_request_uncapped(avail, len) == len

\* The size asked of the hardware read: the minimum of the bytes in the
\* serial buffer and in the provided buffer.
read_bytes_request(avail, len) == Min(avail, len)

\* let avaliable_bytes = Self::avaliable().min(buffer.len());
read_bytes_call(L) ==
    /\ pc = "idle"
    /\ pc' = "rb_read"
    /\ op' = "read_bytes"
    /\ buffer' = fresh_buffer(L)
    /\ length' = L
    /\ avaliable_bytes' = read_bytes_request(usb_serial_available(rx), L)
    /\ count' = 0
    /\ start_millis' = 0
    /\ hwReads' = 0
    /\ hwReq' = [offset |-> 0, size |-> 0]
    /\ rxAtCall' = rx
    /\ ret' = 0
    /\ UNCHANGED <<now, rx, SERIAL_TIMEOUT>>
    /\ UNCHANGED loggerVars
    /\ UNCHANGED ansiVars

\* usb_serial_read(buffer, avaliable_bytes)
read_bytes_read ==
    /\ pc = "rb_read"
    /\ LET bytes == usb_serial_read(rx, avaliable_bytes)
       IN /\ hwReq' = [offset |-> 0, size |-> avaliable_bytes]
          /\ hwReads' = bump_reads(hwReads)
          /\ buffer' = store_at(buffer, 0, bytes)
          /\ rx' = rx_after_read(rx, Len(bytes))
          /\ ret' = Len(bytes)
          /\ pc' = "idle"
    /\ UNCHANGED <<now, SERIAL_TIMEOUT, op, length, count, start_millis,
                   avaliable_bytes, rxAtCall>>
    /\ UNCHANGED loggerVars
    /\ UNCHANGED ansiVars

(***************************************************************************)
(* ANSI escape sequences (src/src/serial/ansi.rs).                         *)
(*                                                                         *)
(* An Option is a sequence: <<>> is None and <<x>> is Some(x). A Color is  *)
(* a record [name, r, g, b]; r, g and b are 0 unless name is "TrueColor".  *)
(***************************************************************************)
ANSI_ESCAPE == <<"ESC", "[">>
ANSI_ESCAPE_END == <<"m">>

NamedColors ==
    {"Black", "Red", "Green", "Yellow", "Blue", "Magenta", "Cyan", "White",
     "LightBlack", "LightRed", "LightGreen", "LightYellow", "LightBlue",
     "LightMagenta", "LightCyan", "LightWhite"}

Styles ==
    {"Clear", "Bold", "Dimmed", "Underline", "Reversed", "Italic", "Blink",
     "Hidden", "Strikethrough"}

Color(name) == [name |-> name, r |-> 0, g |-> 0, b |-> 0]
TrueColor(r, g, b) == [name |-> "TrueColor", r |-> r, g |-> g, b |-> b]

\* The decimal digits of a number, as `{}` displays an unsigned integer.
DecimalDigits == <<"0", "1", "2", "3", "4", "5", "6", "7", "8", "9">>

RECURSIVE Decimal(_)
Decimal(n) ==
    IF n < 10 THEN <<DecimalDigits[n + 1]>>
    ELSE Decimal(n \div 10) \o <<DecimalDigits[(n % 10) + 1]>>

\* EscapeSequence::new
EscapeSequence_new == [fg |-> <<>>, bg |-> <<>>, styles |-> <<>>]

\* EscapeSequence::set_fg
set_fg(self, color) == [self EXCEPT !.fg = <<color>>]

\* EscapeSequence::set_bg
set_bg(self, color) == [self EXCEPT !.bg = <<color>>]

\* EscapeSequence::set_styles
set_styles(self, styles) == [self EXCEPT !.styles = styles]

\* The foreground code of a named color.
fg_code(name) ==
    CASE name = "Black"        -> <<"3", "0">>
      [] name = "Red"          -> <<"3", "1">>
      [] name = "Green"        -> <<"3", "2">>
      [] name = "Yellow"       -> <<"3", "3">>
      [] name = "Blue"         -> <<"3", "4">>
      [] name = "Magenta"      -> <<"3", "5">>
      [] name = "Cyan"         -> <<"3", "6">>
      [] name = "White"        -> <<"3", "7">>
      [] name = "LightBlack"   -> <<"9", "0">>
      [] name = "LightRed"     -> <<"9", "1">>
      [] name = "LightGreen"   -> <<"9", "2">>
      [] name = "LightYellow"  -> <<"9", "3">>
      [] name = "LightBlue"    -> <<"9", "4">>
      [] name = "LightMagenta" -> <<"9", "5">>
      [] name = "LightCyan"    -> <<"9", "6">>
      [] name = "LightWhite"   -> <<"9", "7">>

\* The background code of a named color.
bg_code(name) ==
    CASE name = "Black"        -> <<"4", "0">>
      [] name = "Red"          -> <<"4", "1">>
      [] name = "Green"        -> <<"4", "2">>
      [] name = "Yellow"       -> <<"4", "3">>
      [] name = "Blue"         -> <<"4", "4">>
      [] name = "Magenta"      -> <<"4", "5">>
      [] name = "Cyan"         -> <<"4", "6">>
      [] name = "White"        -> <<"4", "7">>
      [] name = "LightBlack"   -> <<"1", "0", "0">>
      [] name = "LightRed"     -> <<"1", "0", "1">>
      [] name = "LightGreen"   -> <<"1", "0", "2">>
      [] name = "LightYellow"  -> <<"1", "0", "3">>
      [] name = "LightBlue"    -> <<"1", "0", "4">>
      [] name = "LightMagenta" -> <<"1", "0", "5">>
      [] name = "LightCyan"    -> <<"1", "0", "6">>
      [] name = "LightWhite"   -> <<"1", "0", "7">>

\* The code of a style.
style_code(style) ==
    CASE style = "Clear"         -> <<"0">>
      [] style = "Bold"          -> <<"1">>
      [] style = "Dimmed"        -> <<"2">>
      [] style = "Italic"        -> <<"3">>
      [] style = "Underline"     -> <<"4">>
      [] style = "Blink"         -> <<"5">>
      [] style = "Reversed"      -> <<"7">>
      [] style = "Hidden"        -> <<"8">>
      [] style = "Strikethrough" -> <<"9">>

\* write!(f, "38;2;{};{};{}", r, g, b): the strings it writes, in order.
true_color_fragments(lead, c) ==
    <<lead, Decimal(c.r), <<";">>, Decimal(c.g), <<";">>, Decimal(c.b)>>

\* The strings the foreground format writes.
fg_fragments(fg) ==
    IF fg = <<>> THEN <<>>
    ELSE IF fg[1].name = "TrueColor"
         THEN true_color_fragments(<<"3", "8", ";", "2", ";">>, fg[1])
         ELSE <<fg_code(fg[1].name)>>

\* The strings the background format writes.
bg_fragments(bg) ==
    IF bg = <<>> THEN <<>>
    ELSE IF bg[1].name = "TrueColor"
         THEN true_color_fragments(<<"4", "8", ";", "2", ";">>, bg[1])
         ELSE <<bg_code(bg[1].name)>>

\* Mutant of EscapeSequence_fmt: the background is written before the
\* foreground.
EscapeSequence_fmt_bg_first(self, nc) ==
    IF nc THEN <<>>
    ELSE <<ANSI_ESCAPE>>
         \o bg_fragments(self.bg)
         \o fg_fragments(self.fg)
         \o [i \in 1..Len(self.styles) |-> style_code(self.styles[i])]
         \o <<ANSI_ESCAPE_END>>

\* <EscapeSequence as Display>::fmt: the strings it passes to write_str, in
\* order; nc says whether the build has feature "no_color".
EscapeSequence_fmt(self, nc) ==
    IF nc THEN <<>>
    ELSE <<ANSI_ESCAPE>>
         \o fg_fragments(self.fg)
         \o bg_fragments(self.bg)
         \o [i \in 1..Len(self.styles) |-> style_code(self.styles[i])]
         \o <<ANSI_ESCAPE_END>>

(***************************************************************************)
(* Writing to the serial port (src/src/serial/mod.rs).                     *)
(***************************************************************************)
\* usb_serial_write(buffer, size): the count of bytes of s the hardware
\* accepts when it has room for `room` bytes.
usb_serial_write(s, room) == Min(Len(s), room)

\* USBSerial::write
SERIAL_write(s, room) == usb_serial_write(s, room)

\* Mutant of write_str_ok: a short write is not reported.
write_str_always_ok(s, n) == TRUE

\* USBSerialWriter::write_str: whether it returns Ok(()) for string s of
\* which SERIAL::write accepted n bytes.
write_str_ok(s, n) == n = Len(s)

\* One usb_serial_write call: the string given and the count accepted.
WriteCall(s, n) == [data |-> s, accepted |-> n]

\* Writing the strings of a format in order through USBSerialWriter while
\* the hardware has room for `room` bytes: the usb_serial_write calls made.
\* The first write_str that returns Err ends the format.
RECURSIVE write_fmt(_, _)
write_fmt(frags, room) ==
    IF frags = <<>> THEN <<>>
    ELSE LET s == Head(frags)
             n == SERIAL_write(s, room)
         IN IF write_str_ok(s, n)
               THEN <<WriteCall(s, n)>> \o write_fmt(Tail(frags), room - n)
               ELSE <<WriteCall(s, n)>>

\* The fmt::Result of a format that made the write calls ws.
fmt_result_of(ws) ==
    IF \A i \in 1..Len(ws) : write_str_ok(ws[i].data, ws[i].accepted)
       THEN "Ok" ELSE "Err"

(***************************************************************************)
(* The serial logger (src/src/serial/log.rs).                              *)
(*                                                                         *)
(* A Metadata is [level, target]; a Record is [level, target, args], args  *)
(* being the strings the message writes. A filter is [target, level], the  *)
(* level an Option<LevelFilter>.                                           *)
(***************************************************************************)
\* log::LevelFilter, from the least verbose on; log::Level is all but Off.
LevelFilters == <<"Off", "Error", "Warn", "Info", "Debug", "Trace">>
Levels == {"Error", "Warn", "Info", "Debug", "Trace"}

\* The number a Level or LevelFilter is compared by.
level_rank(l) == CHOOSE i \in 1..Len(LevelFilters) : LevelFilters[i] = l

\* Mutant of level_le: the comparison is turned around.
level_ge(level, filter) == level_rank(level) >= level_rank(filter)

\* metadata.level() <= filter
level_le(level, filter) == level_rank(level) <= level_rank(filter)

\* <Level as Display>::fmt
level_str(level) ==
    CASE level = "Error" -> <<"E", "R", "R", "O", "R">>
      [] level = "Warn"  -> <<"W", "A", "R", "N">>
      [] level = "Info"  -> <<"I", "N", "F", "O">>
      [] level = "Debug" -> <<"D", "E", "B", "U", "G">>
      [] level = "Trace" -> <<"T", "R", "A", "C", "E">>

\* Mutant of level_color: Debug is given the bright magenta.
level_color_bright(level) ==
    CASE level = "Error" -> Color("LightRed")
      [] level = "Warn"  -> Color("LightYellow")
      [] level = "Info"  -> Color("LightBlue")
      [] level = "Debug" -> Color("LightMagenta")
      [] level = "Trace" -> Color("LightBlack")

\* let level_color = match &level { ... }
level_color(level) ==
    CASE level = "Error" -> Color("LightRed")
      [] level = "Warn"  -> Color("LightYellow")
      [] level = "Info"  -> Color("LightBlue")
      [] level = "Debug" -> Color("Magenta")
      [] level = "Trace" -> Color("LightBlack")

metadata_of(record) == [level |-> record.level, target |-> record.target]

\* Mutant of position: the last filter of the target, not the first.
RECURSIVE position_last(_, _)
position_last(fs, target) ==
    IF fs = <<>> THEN 0
    ELSE IF fs[Len(fs)].target = target THEN Len(fs)
    ELSE position_last(SubSeq(fs, 1, Len(fs) - 1), target)

\* self.filters.iter().position(|&(target, _)| target == metadata.target()):
\* the index of the first filter of the target, 0 for None.
RECURSIVE position(_, _)
position(fs, target) ==
    IF fs = <<>> THEN 0
    ELSE IF Head(fs).target = target THEN 1
    ELSE LET rest == position(Tail(fs), target)
         IN IF rest = 0 THEN 0 ELSE rest + 1

\* USBLogger::filtered
USBLogger_filtered(fs, metadata) ==
    IF fs = <<>> THEN TRUE
    ELSE LET idx == position(fs, metadata.target)
         IN IF idx # 0
               THEN LET lvl == fs[idx].level
                    IN lvl = <<>> \/ level_le(metadata.level, lvl[1])
               ELSE FALSE

\* <USBLogger as Log>::enabled
USBLogger_enabled(metadata) ==
    /\ enabled
    /\ level_le(metadata.level, max_level)
    /\ USBLogger_filtered(filters, metadata)

\* log::set_logger: Ok unless a logger is installed already.
set_logger(installed) == IF installed THEN "Err" ELSE "Ok"

\* USBLogger::init
USBLogger_init(config) ==
    /\ log_status # "panicked"
    /\ enabled' = TRUE
    /\ filters' = config.filters
    /\ init_result' = set_logger(logger_set)
    /\ logger_set' = TRUE
    /\ max_level' = IF set_logger(logger_set) = "Ok"
                       THEN config.max_level ELSE max_level
    /\ init_called' = TRUE
    /\ query' = <<>>
    /\ UNCHANGED <<no_color, log_calls, last_record, log_status, fmt_result,
                   writes, wire>>
    /\ UNCHANGED serialVars
    /\ UNCHANGED ansiVars

\* A call of USBLogger::filtered on the installed filters.
filtered_call(metadata) ==
    /\ log_status # "panicked"
    /\ query' = <<[metadata |-> metadata,
                   result |-> USBLogger_filtered(filters, metadata)]>>
    /\ UNCHANGED <<no_color, logger_set, max_level, enabled, filters,
                   init_called, init_result, log_calls, last_record,
                   log_status, fmt_result, writes, wire>>
    /\ UNCHANGED serialVars
    /\ UNCHANGED ansiVars

\* The strings writeln!(USBSerialWriter {}, "[{}{}{} {} {}]: {}\r", ...)
\* passes to write_str, in order, for a record logged at clock reading
\* millis: the pieces of the format string that are not empty and, between
\* them, what each argument's Display writes.
log_fragments(record, millis, nc) ==
    << <<"[">> >>
    \o EscapeSequence_fmt(set_fg(EscapeSequence_new, level_color(record.level)), nc)
    \o << level_str(record.level) >>
    \o EscapeSequence_fmt(set_styles(EscapeSequence_new, <<"Clear">>), nc)
    \o << <<" ">>, record.target, <<" ">>, Decimal(millis), <<"]", ":", " ">> >>
    \o record.args
    \o << <<"CR", "LF">> >>

\* Mutant of log_writes: the record is written whether enabled or not.
log_writes_unguarded(record, room) ==
    write_fmt(log_fragments(record, now, no_color), room)

\* The usb_serial_write calls of log(record) while the hardware has room
\* for `room` bytes: if self.enabled(record.metadata()) { writeln!(...) }
log_writes(record, room) ==
    IF USBLogger_enabled(metadata_of(record))
       THEN write_fmt(log_fragments(record, now, no_color), room)
       ELSE <<>>

\* Mutant of log_outcome: .unwrap() for .ok().
log_outcome_unwrap(result) == IF result = "Err" THEN "panicked" ELSE "returned"

\* writeln!(...).ok(): the Result is dropped and log returns.
log_outcome(result) == "returned"

\* The count of bytes of a sequence of strings.
RECURSIVE total_len(_)
total_len(frags) ==
    IF frags = <<>> THEN 0 ELSE Len(Head(frags)) + total_len(Tail(frags))

\* <USBLogger as Log>::log
USBLogger_log(record, room) ==
    /\ log_status # "panicked"
    /\ log_calls < MaxLogCalls
    /\ LET on == USBLogger_enabled(metadata_of(record))
           ws == log_writes(record, room)
       IN /\ writes' = ws
          /\ wire' = wire \o [i \in 1..Len(ws) |-> log_calls + 1]
          /\ fmt_result' = IF on THEN fmt_result_of(ws) ELSE "none"
          /\ log_status' = IF on THEN log_outcome(fmt_result_of(ws))
                                 ELSE "returned"
          /\ last_record' = <<[record |-> record, millis |-> now,
                               enabled |-> on]>>
    /\ log_calls' = log_calls + 1
    /\ UNCHANGED <<no_color, logger_set, max_level, enabled, filters,
                   init_called, init_result, query>>
    /\ UNCHANGED serialVars
    /\ UNCHANGED ansiVars

(***************************************************************************)
(* Specifications.                                                         *)
(***************************************************************************)
\* static SERIAL_TIMEOUT: AtomicU32 = AtomicU32::new(1000);
DEFAULT_TIMEOUT == 1000

InitSerial ==
    /\ rx = <<>>
    /\ SERIAL_TIMEOUT = DEFAULT_TIMEOUT
    /\ pc = "idle"
    /\ op = "none"
    /\ buffer = <<>>
    /\ length = 0
    /\ count = 0
    /\ start_millis = 0
    /\ avaliable_bytes = 0
    /\ ret = 0
    /\ hwReads = 0
    /\ hwReq = [offset |-> 0, size |-> 0]
    /\ rxAtCall = <<>>

\* const fn new() and the log crate before set_logger.
InitLogger ==
    /\ logger_set = FALSE
    /\ max_level = "Off"
    /\ enabled = FALSE
    /\ filters = <<>>
    /\ init_called = FALSE
    /\ init_result = "none"
    /\ query = <<>>
    /\ log_calls = 0
    /\ last_record = <<>>
    /\ log_status = "none"
    /\ fmt_result = "none"
    /\ writes = <<>>
    /\ wire = <<>>

\* No EscapeSequence has been built yet but the one of new().
InitAnsi ==
    /\ sequence = EscapeSequence_new
    /\ built = [op |-> "new", arg |-> <<>>]
    /\ rendered = <<>>

Init ==
    /\ now = 0
    /\ no_color = FALSE
    /\ InitSerial
    /\ InitLogger
    /\ InitAnsi

Next ==
    \/ Tick
    \/ \E b \in Bytes : Arrive(b)
    \/ \E t \in 0..MaxTimeout : set_timeout(t)
    \/ \E L \in 0..MaxLen : read_bytes_timeout_call(L)
    \/ read_bytes_timeout_read
    \/ read_bytes_timeout_time
    \/ \E L \in 0..MaxLen : read_bytes_call(L)
    \/ read_bytes_read

Spec == Init /\ [][Next]_vars

(***************************************************************************)
(* The logger: its inputs and specifications.                              *)
(***************************************************************************)
motor == <<"m", "o", "t", "o", "r">>
sensor == <<"s", "e", "n", "s", "o", "r">>
Targets == {motor, sensor}

Metadatas == [level : Levels, target : Targets]

\* The messages logged: each is the strings its format writes.
Messages == {<< <<"h", "i">> >>}

\* The records logged: one of every level, and one of another target.
Records ==
    [level : Levels, target : {motor}, args : Messages]
       \cup [level : {"Error"}, target : {sensor}, args : Messages]

\* The sequences over S of length at most n.
SeqsUpTo(S, n) == UNION {[1..k -> S] : k \in 0..n}

LevelFilterSet == {LevelFilters[i] : i \in 1..Len(LevelFilters)}

\* Filter tables of at most MaxFilters filters, of every target and level.
FilterTables ==
    SeqsUpTo([target : Targets,
              level : {<<>>} \cup {<<l>> : l \in LevelFilterSet}], MaxFilters)

\* The configurations the logger is initialised with while it logs.
LogConfigs ==
    [max_level : LevelFilterSet,
     filters : {<<>>, <<[target |-> motor, level |-> <<"Warn">>]>>}]

\* The room the hardware has while a line is written: any count up to
\* MaxRoom bytes, or room for the whole line.
Rooms(frags) ==
    (0..Min(MaxRoom, total_len(frags))) \cup {total_len(frags)}

\* The clock readings at which the logger is observed.
LogTimes == {0, 12}

InitLog ==
    /\ now \in LogTimes
    /\ no_color \in BOOLEAN
    /\ InitSerial
    /\ InitLogger
    /\ InitAnsi

NextLog ==
    \/ \E config \in LogConfigs : USBLogger_init(config)
    \/ \E record \in Records :
          \E room \in Rooms(log_fragments(record, now, no_color)) :
              USBLogger_log(record, room)

LogSpec == InitLog /\ [][NextLog]_vars

\* The logger initialised with any filter table and the most verbose level.
InitFilter ==
    /\ now = 0
    /\ no_color = FALSE
    /\ InitSerial
    /\ logger_set = TRUE
    /\ max_level = "Trace"
    /\ enabled = TRUE
    /\ filters \in FilterTables
    /\ init_called = TRUE
    /\ init_result = "Ok"
    /\ query = <<>>
    /\ log_calls = 0
    /\ last_record = <<>>
    /\ log_status = "none"
    /\ fmt_result = "none"
    /\ writes = <<>>
    /\ wire = <<>>
    /\ InitAnsi

NextFilter == \E metadata \in Metadatas : filtered_call(metadata)

FilterSpec == InitFilter /\ [][NextFilter]_vars

\* The read loop runs on: the clock advances and the call's steps are taken.
LiveSpec ==
    /\ Spec
    /\ WF_vars(Tick)
    /\ WF_vars(read_bytes_timeout_read)
    /\ WF_vars(read_bytes_timeout_time)
    /\ WF_vars(read_bytes_read)

(***************************************************************************)
(* Claims about the serial transport.                                      *)
(***************************************************************************)
\* A read_bytes_timeout call is running.
rbt_running == pc \in {"rbt_read", "rbt_time"}

\* The last read call was read_bytes_timeout and has returned.
rbt_returned == pc = "idle" /\ op = "read_bytes_timeout"

\* The last read call was read_bytes and has returned.
rb_returned == pc = "idle" /\ op = "read_bytes"

IsPrefix(s, t) == Len(s) <= Len(t) /\ SubSeq(t, 1, Len(s)) = s

\* C1: read_bytes_timeout returns a short count (count < buffer length) only
\* when the time elapsed since the call started is at least the configured
\* timeout: every step by which a call returns with the buffer not full is
\* taken with millis() - start_millis >= SERIAL_TIMEOUT.
C1_ShortCountOnlyAfterTimeout ==
    [][(rbt_running /\ pc' = "idle" /\ ret' < length)
          => now - start_millis >= SERIAL_TIMEOUT]_vars

\* C2: every call to read_bytes_timeout eventually returns, whatever the
\* buffer length, the timeout and the arrival of bytes, while the clock
\* advances.
C2_EveryCallReturns == rbt_running ~> (pc = "idle")

\* C3: read_bytes_timeout keeps 0 <= count <= length, asks each hardware read
\* at offset count for at most length - count bytes, so that nothing is
\* written past the end of the buffer, and returns a count of at most length.
C3_ReadStaysInBuffer ==
    op = "read_bytes_timeout" =>
        /\ 0 <= count /\ count <= length
        /\ hwReq.offset >= 0 /\ hwReq.size >= 0
        /\ hwReq.offset + hwReq.size <= length
        /\ hwReq.offset <= count /\ count <= hwReq.offset + hwReq.size
        /\ Len(buffer) = length
        /\ (pc = "idle" => ret = count /\ ret <= length)

\* C3 witness: a buffer of two bytes was filled by more than one hardware read.
C3_Witness ==
    /\ rbt_returned
    /\ length = 2 /\ ret = 2
    /\ hwReads >= 2
    /\ hwReq.offset = 1

\* C10: read_bytes issues exactly one hardware read, of size min(A, L) for A
\* bytes available and a buffer of L bytes, and returns min(A, L) bytes taken
\* in order from the front of the receive buffer, leaving the other
\* A - min(A, L) bytes buffered; it does not loop and checks no timeout: the
\* step that reads returns, whatever the clock and the count read.
C10_ReadBytesOneShot ==
    /\ [](rb_returned =>
            LET A == Len(rxAtCall)
                n == Min(A, length)
            IN /\ hwReads = 1
               /\ hwReq = [offset |-> 0, size |-> n]
               /\ ret = n
               /\ Len(buffer) = length
               /\ SubSeq(buffer, 1, n) = SubSeq(rxAtCall, 1, n)
               /\ IsPrefix(SubSeq(rxAtCall, n + 1, A), rx))
    /\ [][(pc = "rb_read" /\ pc' # "rb_read") =>
             (pc' = "idle" /\ hwReads = 0 /\ hwReads' = 1)]_vars

\* C10 witness: two bytes were available, a buffer of one byte took the first
\* and the second is still buffered.
C10_Witness ==
    /\ rb_returned
    /\ Len(rxAtCall) = 2 /\ length = 1 /\ ret = 1
    /\ buffer = <<rxAtCall[1]>>
    /\ rx # <<>> /\ rx[1] = rxAtCall[2]
    /\ rxAtCall[1] # rxAtCall[2]

(***************************************************************************)
(* Claims about the logger.                                                *)
(***************************************************************************)
\* Severity, the most severe first.
Severity == <<"Error", "Warn", "Info", "Debug", "Trace">>

SeverityIndex(s) == CHOOSE i \in 1..Len(Severity) : Severity[i] = s

\* Severity s is at least as severe as threshold t; nothing is as severe as
\* the threshold Off.
AtLeastAsSevere(s, t) ==
    /\ t \in Levels
    /\ SeverityIndex(s) <= SeverityIndex(t)

\* The target filter admits the metadata: an empty table admits all; else
\* the first filter of the target decides, and no such filter rejects.
Admits(fs, metadata) ==
    LET hits == {i \in 1..Len(fs) : fs[i].target = metadata.target}
    IN IF fs = <<>> THEN TRUE
       ELSE IF hits = {} THEN FALSE
       ELSE LET first == CHOOSE i \in hits : \A j \in hits : i <= j
            IN \/ fs[first].level = <<>>
               \/ AtLeastAsSevere(metadata.level, fs[first].level[1])

\* The strings of a sequence, joined.
RECURSIVE Flatten(_)
Flatten(frags) ==
    IF frags = <<>> THEN <<>> ELSE Head(frags) \o Flatten(Tail(frags))

\* The last call of log was of an enabled record.
last_enabled == last_record # <<>> /\ last_record[1].enabled

\* The line of the last call of log.
last_line ==
    Flatten(log_fragments(last_record[1].record, last_record[1].millis,
                          no_color))

\* The bytes the last call of log asked the hardware to write.
last_sent == Flatten([i \in 1..Len(writes) |-> writes[i].data])

\* Write call i of the last call of log fell short.
short(i) == writes[i].accepted < Len(writes[i].data)

\* C4: a call of init made when a logger is installed already fails and
\* leaves the enabled flag, the maximum level and the filter table as they
\* were.
C4_FailedInitChangesNothing ==
    [][\A config \in LogConfigs :
          (logger_set /\ USBLogger_init(config))
             => /\ init_result' = "Err"
                /\ enabled' = enabled
                /\ max_level' = max_level
                /\ filters' = filters]_vars

\* C5: enabled(record) is true iff init has been called and the record's
\* severity is at least as severe as the maximum level and the target filter
\* admits the record; before init it is false for every record, and with an
\* empty filter table it is the severity comparison alone for every target.
C5_EnabledIff ==
    /\ \A metadata \in Metadatas :
          USBLogger_enabled(metadata)
             <=> /\ init_called
                 /\ AtLeastAsSevere(metadata.level, max_level)
                 /\ Admits(filters, metadata)
    /\ ~init_called => \A metadata \in Metadatas : ~USBLogger_enabled(metadata)
    /\ (init_called /\ filters = <<>>) =>
          \A metadata \in Metadatas :
              USBLogger_enabled(metadata)
                 <=> AtLeastAsSevere(metadata.level, max_level)

\* C5 witness: with maximum level Info and no filters, a Debug record was
\* logged and found not enabled, and an Info record would be enabled.
C5_Witness ==
    /\ init_called /\ filters = <<>> /\ max_level = "Info"
    /\ last_record # <<>>
    /\ last_record[1].record.level = "Debug"
    /\ ~last_record[1].enabled
    /\ USBLogger_enabled([level |-> "Info", target |-> sensor])

\* C6: the target filter admits a record as follows: an empty table admits
\* every target; else the first filter whose target equals the record's
\* decides: none rejects, one without a level admits, one with level O admits
\* iff the record's severity is at least as severe as O.
C6_FilterFirstMatch ==
    /\ \A metadata \in Metadatas :
          USBLogger_filtered(filters, metadata) <=> Admits(filters, metadata)
    /\ query # <<>> => query[1].result = Admits(filters, query[1].metadata)

\* C6 witness: of two filters of target motor the first, of level Warn,
\* rejected an Info record that the second would admit.
C6_Witness ==
    /\ filters = <<[target |-> motor, level |-> <<"Warn">>],
                   [target |-> motor, level |-> <<>>]>>
    /\ query = <<[metadata |-> [level |-> "Info", target |-> motor],
                  result |-> FALSE]>>

\* C7, as stated: each enabled call of log issues exactly one write call to
\* the transport, carrying the whole formatted line.
C7_OneWritePerLine ==
    last_enabled => /\ Len(writes) = 1
                    /\ writes[1].data = last_line

\* C7, amended: each enabled call of log issues one or more write calls,
\* which carry consecutive pieces of the formatted line in line order and end
\* at the first write not fully accepted (all of the line if every write is
\* fully accepted); the writes of successive calls of log reach the transport
\* in call order, none of a later call before one of an earlier call.
C7_WritesInLineOrder ==
    /\ \A i, j \in 1..Len(wire) : i < j => wire[i] <= wire[j]
    /\ Len(writes) <= Len(wire)
    /\ \A i \in 1..Len(wire) :
          wire[i] = log_calls <=> i > Len(wire) - Len(writes)
    /\ last_enabled =>
          /\ writes # <<>>
          /\ IsPrefix(last_sent, last_line)
          /\ \A i \in 1..(Len(writes) - 1) : ~short(i)
          /\ ~short(Len(writes)) => last_sent = last_line

\* C7 witness: two enabled calls of log, the first cut short by the
\* transport, the second written whole in more than one write call.
C7_Witness ==
    /\ log_calls = 2
    /\ \E i \in 1..Len(wire) : wire[i] = 1
    /\ \E i \in 1..Len(wire) : wire[i] = 2
    /\ last_enabled /\ fmt_result = "Ok"
    /\ Len(writes) > 1
    /\ last_sent = last_line

\* A step is a call of log; `logged` is the record it is given.
log_step == log_calls' = log_calls + 1
logged == last_record'[1].record

\* C8: when the transport accepts fewer bytes than asked during log, log
\* returns without reporting a failure, sends nothing after the short write,
\* leaves the enabled flag, the maximum level and the filter table as they
\* were, and later calls of log are still attempted.
C8_ShortWriteSwallowed ==
    /\ [](fmt_result = "Err" =>
            /\ log_status = "returned"
            /\ writes # <<>>
            /\ short(Len(writes))
            /\ \A i \in 1..(Len(writes) - 1) : ~short(i))
    /\ [][log_step =>
            /\ UNCHANGED <<enabled, max_level, filters, logger_set>>
            /\ (fmt_result = "Err" /\ USBLogger_enabled(metadata_of(logged)))
                  => (writes' # <<>> /\ writes'[1].data = <<"[">>)]_vars

\* C8 witness: a call of log had its write cut short, partly accepted, and
\* returned; it was the second call, after a first one also cut short.
C8_Witness ==
    /\ log_calls = 2
    /\ \E i \in 1..Len(wire) : wire[i] = 1
    /\ last_enabled /\ fmt_result = "Err" /\ log_status = "returned"
    /\ Len(writes) = 2
    /\ writes[2].accepted > 0

\* C9: log(record) writes nothing to the transport and changes no state when
\* enabled(record) is false; before init is called no call of log writes a
\* byte.
C9_DisabledLogIsNoOp ==
    /\ [](~init_called => wire = <<>>)
    /\ [][(log_step /\ ~USBLogger_enabled(metadata_of(logged)))
            => /\ writes' = <<>> /\ wire' = wire
               /\ fmt_result' = "none" /\ log_status' = "returned"
               /\ UNCHANGED <<enabled, max_level, filters, logger_set,
                              no_color, serialVars>>]_vars

\* C9 witness: log was called twice before init and nothing was written.
C9_Witness ==
    /\ ~init_called
    /\ log_calls = 2
    /\ last_record # <<>> /\ ~last_record[1].enabled
    /\ wire = <<>>

\* The digits of the foreground code of a severity's color: bright red 91,
\* bright yellow 93, bright blue 94, magenta 35, bright black 90.
severity_fg(s) ==
    CASE s = "Error" -> <<"9", "1">>
      [] s = "Warn"  -> <<"9", "3">>
      [] s = "Info"  -> <<"9", "4">>
      [] s = "Debug" -> <<"3", "5">>
      [] s = "Trace" -> <<"9", "0">>

\* An escape sequence of the given codes as the build renders it: nothing
\* when color is disabled.
escape(codes) ==
    IF no_color THEN <<>> ELSE <<"ESC", "[">> \o codes \o <<"m">>

\* The line of a record logged at clock reading millis.
line_of(record, millis) ==
    <<"[">> \o escape(severity_fg(record.level)) \o level_str(record.level)
            \o escape(<<"0">>)
            \o <<" ">> \o record.target
            \o <<" ">> \o Decimal(millis)
            \o <<"]", ":", " ">> \o Flatten(record.args)
            \o <<"CR", "LF">>

\* The bytes the transport accepted from the last call of log.
last_accepted ==
    Flatten([i \in 1..Len(writes) |->
                SubSeq(writes[i].data, 1, writes[i].accepted)])

\* C11: for every enabled record, the bytes the transport accepts from one
\* call of log are a prefix of the line "[" fg(color of severity) severity
\* style-clear " " target " " timestamp "]: " message CR LF, the color being
\* bright red for Error, bright yellow for Warn, bright blue for Info,
\* magenta for Debug and bright black for Trace; they are the whole line when
\* every write is fully accepted; and after a write that is not fully
\* accepted no further byte of the record is written.
C11_AcceptedIsLinePrefix ==
    last_enabled =>
        LET line == line_of(last_record[1].record, last_record[1].millis)
        IN /\ IsPrefix(last_accepted, line)
           /\ (\A i \in 1..Len(writes) : ~short(i)) => last_accepted = line
           /\ \A i \in 1..Len(writes) : short(i) => i = Len(writes)
           /\ (\E i \in 1..Len(writes) : short(i)) =>
                 /\ Len(last_accepted) < Len(line)
                 /\ Cardinality({i \in 1..Len(wire) : wire[i] = log_calls})
                       = Len(writes)

\* C11 witness: a Debug record logged in color at clock reading 12 after a
\* call that was cut short; every write of it was accepted and the wire
\* carries the whole line, the color of Debug being magenta.
C11_Witness ==
    /\ ~no_color
    /\ log_calls = 2
    /\ \E i \in 1..Len(wire) : wire[i] = 1
    /\ Len(wire) < 2 * Len(writes)
    /\ last_enabled
    /\ last_record[1].record.level = "Debug"
    /\ last_record[1].millis = 12
    /\ last_accepted =
          <<"[", "ESC", "[", "3", "5", "m", "D", "E", "B", "U", "G",
            "ESC", "[", "0", "m", " ", "m", "o", "t", "o", "r", " ",
            "1", "2", "]", ":", " ", "h", "i", "CR", "LF">>

(***************************************************************************)
(* Escape sequences: building and displaying one.                          *)
(***************************************************************************)
\* The string Display writes for an EscapeSequence: its write_str calls
\* joined, all of them accepted by the Formatter.
EscapeSequence_to_string(self, nc) == Flatten(EscapeSequence_fmt(self, nc))

\* EscapeSequence::new()
new_call ==
    /\ sequence' = EscapeSequence_new
    /\ built' = [op |-> "new", arg |-> <<>>]
    /\ rendered' = <<>>
    /\ UNCHANGED <<serialVars, loggerVars>>

\* sequence.set_fg(color)
set_fg_call(color) ==
    /\ sequence' = set_fg(sequence, color)
    /\ built' = [op |-> "set_fg", arg |-> color]
    /\ rendered' = <<>>
    /\ UNCHANGED <<serialVars, loggerVars>>

\* sequence.set_bg(color)
set_bg_call(color) ==
    /\ sequence' = set_bg(sequence, color)
    /\ built' = [op |-> "set_bg", arg |-> color]
    /\ rendered' = <<>>
    /\ UNCHANGED <<serialVars, loggerVars>>

\* sequence.set_styles(styles)
set_styles_call(styles) ==
    /\ sequence' = set_styles(sequence, styles)
    /\ built' = [op |-> "set_styles", arg |-> styles]
    /\ rendered' = <<>>
    /\ UNCHANGED <<serialVars, loggerVars>>

\* Displaying the sequence: <EscapeSequence as Display>::fmt
fmt_call ==
    /\ rendered' = <<EscapeSequence_to_string(sequence, no_color)>>
    /\ built' = [op |-> "fmt", arg |-> <<>>]
    /\ UNCHANGED sequence
    /\ UNCHANGED <<serialVars, loggerVars>>

\* The colors given to the builders: every named color, and RGB triples of
\* one, two and three digit components.
TrueColors ==
    {TrueColor(255, 0, 42), TrueColor(0, 7, 100), TrueColor(9, 10, 255)}

Colors == {Color(name) : name \in NamedColors} \cup TrueColors

\* The style slices given to set_styles: none, every single style, and
\* longer ones, among them two of the same styles in both orders and one
\* that repeats a style.
StyleLists ==
    {<<>>} \cup {<<style>> : style \in Styles}
       \cup {<<"Bold", "Clear">>, <<"Clear", "Bold">>,
             <<"Underline", "Italic">>, <<"Reversed", "Blink", "Hidden">>,
             <<"Dimmed", "Strikethrough", "Dimmed">>}

InitColor ==
    /\ now = 0
    /\ no_color \in BOOLEAN
    /\ InitSerial
    /\ InitLogger
    /\ InitAnsi

NextColor ==
    \/ new_call
    \/ \E color \in Colors : set_fg_call(color)
    \/ \E color \in Colors : set_bg_call(color)
    \/ \E styles \in StyleLists : set_styles_call(styles)
    \/ fmt_call

ColorSpec == InitColor /\ [][NextColor]_vars

(***************************************************************************)
(* Claims about escape sequences.                                          *)
(***************************************************************************)
\* The named colors in the order of their codes: the normal ones from the
\* base code on, the bright ones from 60 above it.
NormalColors ==
    <<"Black", "Red", "Green", "Yellow", "Blue", "Magenta", "Cyan", "White">>
BrightColors ==
    <<"LightBlack", "LightRed", "LightGreen", "LightYellow", "LightBlue",
      "LightMagenta", "LightCyan", "LightWhite">>

index_in(names, name) == CHOOSE i \in 1..Len(names) : names[i] = name

\* The code of a color on the base 30 (foreground) or 40 (background):
\* base + 0..7 for a normal color, base + 60 + 0..7 for a bright one, and
\* base + 8 followed by ;2;R;G;B for an RGB triple.
color_code(c, base) ==
    IF c.name = "TrueColor"
       THEN Decimal(base + 8) \o <<";", "2", ";">> \o Decimal(c.r)
               \o <<";">> \o Decimal(c.g) \o <<";">> \o Decimal(c.b)
    ELSE IF \E i \in 1..Len(NormalColors) : NormalColors[i] = c.name
       THEN Decimal(base + index_in(NormalColors, c.name) - 1)
       ELSE Decimal(base + 60 + index_in(BrightColors, c.name) - 1)

\* The number of a style.
style_number(style) ==
    CASE style = "Clear"         -> 0
      [] style = "Bold"          -> 1
      [] style = "Dimmed"        -> 2
      [] style = "Italic"        -> 3
      [] style = "Underline"     -> 4
      [] style = "Blink"         -> 5
      [] style = "Reversed"      -> 7
      [] style = "Hidden"        -> 8
      [] style = "Strikethrough" -> 9

\* The codes of a style slice, joined in the order of the slice.
RECURSIVE style_codes(_)
style_codes(styles) ==
    IF styles = <<>> THEN <<>>
    ELSE Decimal(style_number(Head(styles))) \o style_codes(Tail(styles))

\* The rendering of a ColorSpec with color enabled.
rendering(spec) ==
    <<"ESC", "[">>
       \o (IF spec.fg = <<>> THEN <<>> ELSE color_code(spec.fg[1], 30))
       \o (IF spec.bg = <<>> THEN <<>> ELSE color_code(spec.bg[1], 40))
       \o style_codes(spec.styles)
       \o <<"m">>

\* C12: with color enabled a ColorSpec renders as ESC[, the foreground code
\* if set, the background code if set, the style codes in the order
\* supplied, and m; named colors have codes 30-37 and 90-97 (foreground) and
\* 40-47 and 100-107 (background), an RGB triple 38;2;R;G;B or 48;2;R;G;B,
\* and the styles Clear 0, Bold 1, Dimmed 2, Italic 3, Underline 4, Blink 5,
\* Reversed 7, Hidden 8, Strikethrough 9; the empty spec renders as ESC[m;
\* with color disabled every spec renders as the empty string; and set_fg,
\* set_bg and set_styles each set their own field and leave the others.
C12_Rendering ==
    /\ [](rendered # <<>> =>
            /\ ~no_color => rendered[1] = rendering(sequence)
            /\ (~no_color /\ sequence = EscapeSequence_new)
                  => rendered[1] = <<"ESC", "[", "m">>
            /\ no_color => rendered[1] = <<>>)
    /\ [][/\ built'.op = "set_fg" =>
                /\ sequence'.fg = <<built'.arg>>
                /\ sequence'.bg = sequence.bg
                /\ sequence'.styles = sequence.styles
          /\ built'.op = "set_bg" =>
                /\ sequence'.bg = <<built'.arg>>
                /\ sequence'.fg = sequence.fg
                /\ sequence'.styles = sequence.styles
          /\ built'.op = "set_styles" =>
                /\ sequence'.styles = built'.arg
                /\ sequence'.fg = sequence.fg
                /\ sequence'.bg = sequence.bg]_vars

\* C12 witness: a spec given an RGB foreground, then a bright background,
\* then two styles, the builders having kept each other's fields, was
\* displayed in color.
C12_Witness ==
    /\ ~no_color
    /\ sequence.fg = <<TrueColor(255, 0, 42)>>
    /\ sequence.bg = <<Color("LightBlue")>>
    /\ sequence.styles = <<"Bold", "Clear">>
    /\ built.op = "fmt"
    /\ rendered =
          << <<"ESC", "[", "3", "8", ";", "2", ";", "2", "5", "5", ";", "0",
               ";", "4", "2", "1", "0", "4", "1", "0", "m">> >>

====
